---- MODULE Spec2Model ----
(***************************************************************************)
(* Model of the webScrapper dashboard front end: the root App (tabs, the   *)
(* delayed refresh key), the ScraperInterface form, the Video and PDF      *)
(* managers (list fetch, per-item download tracking) and the Reports       *)
(* manager, with the network requests each of them leaves pending.         *)
(*                                                                         *)
(* Execution is single-threaded and event-driven: every action below is    *)
(* one event handler run up to its first await, or the continuation of one *)
(* await.  React state set by an unmounted component is dropped; a pending *)
(* request of an unmounted component still completes ("orphan").           *)
(***************************************************************************)
EXTENDS Integers, Sequences, FiniteSets, Bags, TLC

\* ------------------------------------------------------------ bounds

\* Longest string typed into a form field.
MaxStrLen == 2
\* Most entries in the form, URL rows and keyword rows together.
MaxEntries == 3
\* Most submissions transmitted in one run (caps refreshTrigger).
MaxSubmits == 1
\* Most network requests pending at the same time.
MaxPending == 2
\* Artifact identifiers the remote service may list.
MaxIds == 2
\* Longest rest of an artifact's url after its host.
MaxUrlTail == 3

\* ------------------------------------------------------------ strings

\* A string is a sequence of characters; " " stands for white space.
WhiteSpace == {" "}
Chars == {" ", "a"}

RECURSIVE StringsOfLen(_)
StringsOfLen(n) ==
  IF n = 0 THEN {<<>>}
  ELSE {Append(s, c) : s \in StringsOfLen(n - 1), c \in Chars}

Strings == UNION {StringsOfLen(n) : n \in 0..MaxStrLen}

RECURSIVE TrimStart(_)
TrimStart(s) ==
  IF s = <<>> THEN s
  ELSE IF Head(s) \in WhiteSpace THEN TrimStart(Tail(s)) ELSE s

RECURSIVE TrimEnd(_)
TrimEnd(s) ==
  IF s = <<>> THEN s
  ELSE IF s[Len(s)] \in WhiteSpace THEN TrimEnd(SubSeq(s, 1, Len(s) - 1)) ELSE s

\* String.prototype.trim
Trim(s) == TrimEnd(TrimStart(s))

\* A string used as a condition: the empty string is falsy.
Truthy(s) == s # <<>>

\* ------------------------------------------------------------ domains

Tabs == {"scraper", "videos", "pdfs", "reports"}
Kinds == {"videos", "pdfs"}
Ids == 1..MaxIds

\* What the model keeps of a Video / PDF: its id and whether
\* minio_object_name is present.
Artifacts == [id : Ids, minio_object_name : BOOLEAN]

\* The arrays GET /videos and GET /pdfs may answer with: the artifacts
\* 1..n in the order they were found, each persisted or not yet.
RECURSIVE ListsOfLen(_)
ListsOfLen(n) ==
  IF n = 0 THEN {<<>>}
  ELSE {Append(l, [id |-> n, minio_object_name |-> m]) :
          l \in ListsOfLen(n - 1), m \in BOOLEAN}

RemoteLists == UNION {ListsOfLen(n) : n \in 0..MaxIds}

\* A JSON body that is an array without being a Video[] / PDF[]: its one
\* element has no id and no minio_object_name (both read as undefined).
NoId == 0
Malformed == <<[id |-> NoId, minio_object_name |-> FALSE]>>

\* What response.data of GET /videos and GET /pdfs may be.
Payloads == RemoteLists \cup {Malformed}

\* videos.slice(0, 3)
SliceLimit == 3

\* The url of an artifact: "https://", a host, and what follows the host,
\* which is nothing or starts a path ("/") or a query ("?").
UrlChars == {"a", "/", "?"}
Scheme == <<"https:", "/", "/">>
Host == <<"x.org">>

RECURSIVE TailsOfLen(_)
TailsOfLen(n) ==
  IF n = 0 THEN {<<>>}
  ELSE {Append(t, c) : t \in TailsOfLen(n - 1), c \in UrlChars}

Tails ==
  {t \in UNION {TailsOfLen(n) : n \in 0..MaxUrlTail} :
     t = <<>> \/ Head(t) \in {"/", "?"}}

Urls == {Scheme \o Host \o t : t \in Tails}

\* The optional filename of a Video / PDF: absent (or empty), or given.
Filenames == {<<>>, <<"f.bin">>}

\* A Video / PDF with the fields handleDownload reads, persisted.
NamedArtifacts ==
  [id : Ids, minio_object_name : {TRUE}, filename : Filenames, url : Urls]

VARIABLES
  isLoading,        \* App: the start-up splash is showing
  activeTab,        \* App
  refreshTrigger,   \* App: the key of VideoManager / PDFManager
  timers,           \* pending setTimeout callbacks of handleScrapeStart
  urls,             \* ScraperInterface
  keywords,         \* ScraperInterface
  scraperLoading,   \* ScraperInterface: loading
  items,            \* items[k]: videos / pdfs of the mounted manager
  loading,          \* loading[k]
  downloading,      \* downloading[k]: the Set of ids
  generating,       \* ReportsManager
  reportsDownloading, \* ReportsManager: downloading
  net,              \* bag of pending requests
  posted,           \* history: POST /scrape requests sent
  ev                \* the last handler's outward effects

vars == <<isLoading, activeTab, refreshTrigger, timers, urls, keywords,
          scraperLoading, items, loading, downloading,
          generating, reportsDownloading, net, posted, ev>>

appVars == <<isLoading, activeTab, refreshTrigger>>
formVars == <<urls, keywords>>
scraperVars == <<urls, keywords, scraperLoading>>
managerVars == <<items, loading, downloading>>
reportVars == <<generating, reportsDownloading>>
histVars == <<posted>>

\* ------------------------------------------------------------ requests

\* A pending request: which apiService call it is, the manager kind and
\* the artifact id it is for (or "none" / 0), and whether the component
\* instance that awaits it is still mounted.
Op(op, kind, id, live) == [op |-> op, kind |-> kind, id |-> id, live |-> live]

ScrapeOp(live) == Op("scrape", "none", 0, live)
ListOp(k, live) == Op("list", k, 0, live)
DownloadOp(k, id, live) == Op("download", k, id, live)
GenerateOp(live) == Op("generate", "none", 0, live)
ReportsOp(live) == Op("reports", "none", 0, live)

Pending(o) == IF o \in DOMAIN net THEN net[o] ELSE 0

Room == BagCardinality(net) < MaxPending

Issue(o) == net (+) SetToBag({o})

\* Mutant of Complete: the settled request sent again.
Retry(o) == net

Complete(o) == net (-) SetToBag({o})

\* Unmounting the rendered component: its state is discarded and the
\* requests it awaits go on without it.  Only the active tab's component
\* is mounted, so every live request belongs to it.
Orphaned(b) ==
  LET dead == {[o EXCEPT !.live = FALSE] : o \in DOMAIN b}
      n(o) == IF o \in DOMAIN b THEN b[o] ELSE 0
  IN  [o \in dead |-> n(o) + n([o EXCEPT !.live = TRUE])]

\* ------------------------------------------------------------ transport (api.ts)

\* How a request sent through the axios instance settles: a response with
\* a 2xx status, or one of the rejections of axios (the 30 s time-out, no
\* response at all, a status outside 2xx).
Settlements == {"2xx", "timeout", "network", "status"}

\* Mutant of Resolved: the rejection caught inside apiService.
ResolvedAlways(s) == TRUE

\* apiService.*: `const response = await api.get(...); return response.data;`
\* with no catch: the call resolves exactly when the request does.
Resolved(s) == s = "2xx"

\* What the caller's catch block receives: the AxiosError of the rejection.
Thrown(s) == IF Resolved(s) THEN "none" ELSE s

\* The text of window.alert, or NoAlert when the handler raises none.
NoAlert == "none"

\* ------------------------------------------------------------ initial state

NoItems == [k \in Kinds |-> <<>>]
NotLoading == [k \in Kinds |-> FALSE]
NoDownloads == [k \in Kinds |-> {}]

\* useState initial values of a freshly mounted ScraperInterface.
ScraperInit ==
  /\ urls = <<<<>>>>
  /\ keywords = <<<<>>>>
  /\ scraperLoading = FALSE

Init ==
  /\ isLoading = TRUE
  /\ activeTab = "scraper"
  /\ refreshTrigger = 0
  /\ timers = 0
  /\ ScraperInit
  /\ items = NoItems
  /\ loading = NotLoading
  /\ downloading = NoDownloads
  /\ generating = FALSE
  /\ reportsDownloading = FALSE
  /\ net = EmptyBag
  /\ posted = 0
  /\ ev = [type |-> "init"]

\* The splash timer of App's useEffect: after it the tabs are rendered.
SplashDone ==
  /\ isLoading
  /\ isLoading' = FALSE
  /\ ev' = [type |-> "splash"]
  /\ UNCHANGED <<activeTab, refreshTrigger, timers, scraperVars, managerVars,
                 reportVars, net, histVars>>

Rendered(tab) == ~isLoading /\ activeTab = tab

\* ------------------------------------------------------------ ScraperInterface

FormRoom == Len(urls) + Len(keywords) < MaxEntries

RemoveAt(list, index) ==
  [i \in 1..(Len(list) - 1) |-> IF i < index THEN list[i] ELSE list[i + 1]]

Edited == [type |-> "edit"]

addUrl ==
  /\ Rendered("scraper") /\ FormRoom
  /\ urls' = Append(urls, <<>>)
  /\ ev' = Edited
  /\ UNCHANGED <<appVars, timers, keywords, scraperLoading,
                 managerVars, reportVars, net, histVars>>

removeUrl(index) ==
  /\ Rendered("scraper") /\ index \in DOMAIN urls
  /\ Len(urls) > 1        \* the X button is rendered only then
  /\ urls' = IF Len(urls) > 1 THEN RemoveAt(urls, index) ELSE urls
  /\ ev' = Edited
  /\ UNCHANGED <<appVars, timers, keywords, scraperLoading,
                 managerVars, reportVars, net, histVars>>

updateUrl(index, value) ==
  /\ Rendered("scraper") /\ index \in DOMAIN urls
  /\ urls' = [urls EXCEPT ![index] = value]
  /\ ev' = Edited
  /\ UNCHANGED <<appVars, timers, keywords, scraperLoading,
                 managerVars, reportVars, net, histVars>>

addKeyword ==
  /\ Rendered("scraper") /\ FormRoom
  /\ keywords' = Append(keywords, <<>>)
  /\ ev' = Edited
  /\ UNCHANGED <<appVars, timers, urls, scraperLoading,
                 managerVars, reportVars, net, histVars>>

removeKeyword(index) ==
  /\ Rendered("scraper") /\ index \in DOMAIN keywords
  /\ Len(keywords) > 1
  /\ keywords' = IF Len(keywords) > 1 THEN RemoveAt(keywords, index) ELSE keywords
  /\ ev' = Edited
  /\ UNCHANGED <<appVars, timers, urls, scraperLoading,
                 managerVars, reportVars, net, histVars>>

updateKeyword(index, value) ==
  /\ Rendered("scraper") /\ index \in DOMAIN keywords
  /\ keywords' = [keywords EXCEPT ![index] = value]
  /\ ev' = Edited
  /\ UNCHANGED <<appVars, timers, urls, scraperLoading,
                 managerVars, reportVars, net, histVars>>

\* Mutant of ValidEntries: urls.filter(url => url), the trim forgotten.
ValidUntrimmed(list) == SelectSeq(list, LAMBDA e : Truthy(e))

\* urls.filter(url => url.trim())
ValidEntries(list) == SelectSeq(list, LAMBDA e : Truthy(Trim(e)))

\* Mutant of EmptyRequest: the check left out.
NeverEmpty(validUrls, validKeywords) == FALSE

\* validUrls.length === 0 && validKeywords.length === 0
EmptyRequest(validUrls, validKeywords) ==
  Len(validUrls) = 0 /\ Len(validKeywords) = 0

\* App.handleScrapeStart: one more setTimeout callback is pending.
handleScrapeStart == timers + 1

\* handleSubmit up to `await apiService.scrapeContent(request)`.
handleSubmit ==
  /\ Rendered("scraper")
  /\ ~scraperLoading                    \* the submit button is disabled
  /\ LET validUrls == ValidEntries(urls)
         validKeywords == ValidEntries(keywords)
     IN  IF EmptyRequest(validUrls, validKeywords)
         THEN /\ ev' = [type |-> "submit", outcome |-> "EmptyRequest"]
              /\ UNCHANGED <<timers, scraperLoading, net, posted>>
         ELSE /\ posted < MaxSubmits /\ Room
              /\ scraperLoading' = TRUE
              /\ timers' = handleScrapeStart     \* onScrapeStart()
              /\ net' = Issue(ScrapeOp(TRUE))
              /\ posted' = posted + 1
              /\ ev' = [type |-> "submit", outcome |-> "sent",
                        request |-> [urls |-> validUrls,
                                     keywords |-> validKeywords]]
  /\ UNCHANGED <<appVars, formVars, managerVars, reportVars>>

\* Mutant of ScrapeResponse: the form reset in the finally block.
ScrapeResponseResetting(live, s) ==
  /\ Pending(ScrapeOp(live)) > 0
  /\ net' = Complete(ScrapeOp(live))
  /\ IF live
     THEN /\ scraperLoading' = FALSE
          /\ urls' = <<<<>>>>
          /\ keywords' = <<<<>>>>
     ELSE UNCHANGED scraperVars
  /\ ev' = [type |-> "scrapeDone", live |-> live, ok |-> Resolved(s),
            settled |-> s, error |-> Thrown(s),
            alert |-> IF Resolved(s) THEN NoAlert
                      ELSE "Failed to start scraping. Please try again."]
  /\ UNCHANGED <<appVars, timers, managerVars, reportVars, posted>>

\* handleSubmit after the await: the answer, or the error the request
\* was rejected with (time-out, transport failure, error status).
ScrapeResponse(live, s) ==
  /\ Pending(ScrapeOp(live)) > 0
  /\ net' = Complete(ScrapeOp(live))
  /\ IF live
     THEN /\ scraperLoading' = FALSE
          /\ IF Resolved(s)            \* the form is reset
             THEN /\ urls' = <<<<>>>>
                  /\ keywords' = <<<<>>>>
             ELSE UNCHANGED formVars
     ELSE UNCHANGED scraperVars
  /\ ev' = [type |-> "scrapeDone", live |-> live, ok |-> Resolved(s),
            settled |-> s, error |-> Thrown(s),
            alert |-> IF Resolved(s) THEN NoAlert
                      ELSE "Failed to start scraping. Please try again."]
  /\ UNCHANGED <<appVars, timers, managerVars, reportVars, posted>>

\* ------------------------------------------------------------ VideoManager, PDFManager

Min(a, b) == IF a < b THEN a ELSE b

\* The cards rendered: videos.slice(0, 3).map(...), pdfs.map(...)
Displayed(k) ==
  IF k = "videos"
  THEN SubSeq(items[k], 1, Min(SliceLimit, Len(items[k])))
  ELSE items[k]

\* The list is rendered only when loading is false; a card has a download
\* button only with minio_object_name, disabled while its id is in the set.
DownloadButtonEnabled(k, a) ==
  /\ Rendered(k)
  /\ ~loading[k]
  /\ \E i \in DOMAIN Displayed(k) : Displayed(k)[i] = a
  /\ a.minio_object_name
  /\ a.id \notin downloading[k]

\* Mutant of fetchList: a call made while loading is dropped.
fetchListUnlessLoading(k) ==
  IF loading[k]
  THEN UNCHANGED <<loading, net>>
  ELSE /\ Room
       /\ loading' = [loading EXCEPT ![k] = TRUE]
       /\ net' = Issue(ListOp(k, TRUE))

\* fetchVideos / fetchPDFs up to the await.
fetchList(k) ==
  /\ Room
  /\ loading' = [loading EXCEPT ![k] = TRUE]
  /\ net' = Issue(ListOp(k, TRUE))

\* A call of fetchVideos / fetchPDFs on the mounted manager.
refresh(k) ==
  /\ Rendered(k)
  /\ fetchList(k)
  /\ ev' = [type |-> "refresh", kind |-> k]
  /\ UNCHANGED <<appVars, timers, scraperVars, items, downloading,
                 reportVars, histVars>>

\* Mutant of RefreshButtonShown: the button outside the loading gate.
RefreshAlwaysShown(k) == TRUE

\* `if (loading) return <spinner>`: the Refresh button is rendered only
\* when loading is false.
RefreshButtonShown(k) == ~loading[k]

\* onClick={fetchVideos} / onClick={fetchPDFs}
ClickRefresh(k) ==
  /\ RefreshButtonShown(k)
  /\ refresh(k)

\* Mutant of Stored: an empty answer keeps the items already shown.
StoredUnlessEmpty(old, data) == IF data = <<>> THEN old ELSE data

\* setVideos(data) / setPdfs(data)
Stored(old, data) == data

\* fetchVideos / fetchPDFs after the await, the request answered.  The
\* data of an unmounted manager is dropped.
ListSuccess(k, live, s, data) ==
  /\ Resolved(s)
  /\ Pending(ListOp(k, live)) > 0
  /\ net' = Complete(ListOp(k, live))
  /\ IF live
     THEN /\ items' = [items EXCEPT ![k] = Stored(items[k], data)]
          /\ loading' = [loading EXCEPT ![k] = FALSE]
     ELSE UNCHANGED <<items, loading>>
  /\ ev' = [type |-> "listDone", kind |-> k, live |-> live, ok |-> TRUE,
            settled |-> s, error |-> Thrown(s), alert |-> NoAlert,
            data |-> IF live THEN data ELSE <<>>]
  /\ UNCHANGED <<appVars, timers, scraperVars, downloading, reportVars,
                 histVars>>

\* fetchVideos / fetchPDFs after the await, the request rejected: the
\* catch block logs to the console and raises no alert.
ListFailure(k, live, s) ==
  /\ ~Resolved(s)
  /\ Pending(ListOp(k, live)) > 0
  /\ net' = Complete(ListOp(k, live))
  /\ IF live
     THEN loading' = [loading EXCEPT ![k] = FALSE]
     ELSE UNCHANGED loading
  /\ ev' = [type |-> "listDone", kind |-> k, live |-> live, ok |-> FALSE,
            settled |-> s, error |-> Thrown(s), alert |-> NoAlert]
  /\ UNCHANGED <<appVars, timers, scraperVars, items, downloading,
                 reportVars, histVars>>

\* Mutant of MarkDownloading: the id is not recorded.
MarkNothing(set, id) == set

\* setDownloading(prev => new Set(prev).add(id))
MarkDownloading(set, id) == set \cup {id}

\* Mutant of handleDownload: the minio_object_name check left out.
handleDownloadUnguarded(k, a) ==
  /\ Room
  /\ downloading' =
       [downloading EXCEPT ![k] = MarkDownloading(downloading[k], a.id)]
  /\ net' = Issue(DownloadOp(k, a.id, TRUE))
  /\ ev' = [type |-> "download", kind |-> k, id |-> a.id,
            outcome |-> "started"]

\* alert('Video not available for download') / alert('PDF not available
\* for download')
UnavailableAlert(k) ==
  IF k = "videos" THEN "Video not available for download"
  ELSE "PDF not available for download"

\* handleDownload up to the await.
handleDownload(k, a) ==
  IF ~a.minio_object_name
  THEN /\ ev' = [type |-> "download", kind |-> k, id |-> a.id,
                 outcome |-> "unavailable", alert |-> UnavailableAlert(k)]
       /\ UNCHANGED <<downloading, net>>
  ELSE /\ Room
       /\ downloading' =
            [downloading EXCEPT ![k] = MarkDownloading(downloading[k], a.id)]
       /\ net' = Issue(DownloadOp(k, a.id, TRUE))
       /\ ev' = [type |-> "download", kind |-> k, id |-> a.id,
                 outcome |-> "started"]

ClickDownload(k, a) ==
  /\ DownloadButtonEnabled(k, a)
  /\ handleDownload(k, a)
  /\ UNCHANGED <<appVars, timers, scraperVars, items, loading, reportVars,
                 histVars>>

\* A call of handleDownload for an artifact the mounted manager lists.
download(k, a) ==
  /\ Rendered(k)
  /\ \E i \in DOMAIN items[k] : items[k][i] = a
  /\ handleDownload(k, a)
  /\ UNCHANGED <<appVars, timers, scraperVars, items, loading, reportVars,
                 histVars>>

\* How an awaited download ends: the blob arrived and downloadFile ran,
\* the request was rejected, or downloadFile threw.
DownloadOutcomes == {"saved", "fetchFailed", "saveFailed"}

DownloadOutcome(s, saves) ==
  IF ~Resolved(s) THEN "fetchFailed"
  ELSE IF saves THEN "saved" ELSE "saveFailed"

\* The Blob a download request resolves with: the payload of that artifact,
\* or the report bundle.
Blob(k, id) == [kind |-> k, id |-> id]
ReportBundle == Blob("reports", 0)

\* Mutant of Saves: downloadFile called in the finally block.
SavesAlways(s, blob) == <<blob>>

\* The calls of downloadFile made by a handler after its await, each by
\* the blob it is given: one, in the try block, when the request resolved.
Saves(s, blob) == IF Resolved(s) THEN <<blob>> ELSE <<>>

\* alert('Failed to download video') / alert('Failed to download PDF')
DownloadAlert(k) ==
  IF k = "videos" THEN "Failed to download video" ELSE "Failed to download PDF"

\* Mutant of ReleaseDownloading: the delete in the try block, not in finally.
ReleaseOnSuccess(set, id, outcome) ==
  IF outcome = "saved" THEN set \ {id} ELSE set

\* The finally block: the id leaves the set whatever the outcome.
ReleaseDownloading(set, id, outcome) == set \ {id}

\* url.split('/').pop(): what follows the last "/" of the string.
RECURSIVE SplitPop(_)
SplitPop(url) ==
  IF url = <<>> THEN <<>>
  ELSE IF url[Len(url)] = "/" THEN <<>>
  ELSE Append(SplitPop(SubSeq(url, 1, Len(url) - 1)), url[Len(url)])

\* `video_${video.id}.mp4` / `document_${pdf.id}.pdf`
Fallback(k, id) ==
  IF k = "videos" THEN <<"video_", ToString(id), ".mp4">>
  ELSE <<"document_", ToString(id), ".pdf">>

\* video.filename || video.url.split('/').pop() || `video_${video.id}.mp4`
Filename(k, a) ==
  IF Truthy(a.filename) THEN a.filename
  ELSE IF Truthy(SplitPop(a.url)) THEN SplitPop(a.url)
  ELSE Fallback(k, a.id)

\* handleDownload after the await, the blob received and saved by
\* downloadFile(blob, filename); `a` is the artifact the handler was
\* called with.
SaveDownload(k, a) ==
  /\ Rendered(k)
  /\ \E i \in DOMAIN items[k] : items[k][i] = a
  /\ Pending(DownloadOp(k, a.id, TRUE)) > 0
  /\ net' = Complete(DownloadOp(k, a.id, TRUE))
  /\ downloading' =
       [downloading EXCEPT
          ![k] = ReleaseDownloading(downloading[k], a.id, "saved")]
  /\ ev' = [type |-> "saveAs", kind |-> k, artifact |-> a,
            saved |-> Saves("2xx", Blob(k, a.id)),
            filename |-> Filename(k, a)]
  /\ UNCHANGED <<appVars, timers, scraperVars, items, loading, reportVars,
                 histVars>>

\* handleDownload after the await.
DownloadResponse(k, id, live, s, saves) ==
  /\ Pending(DownloadOp(k, id, live)) > 0
  /\ ~Resolved(s) => saves             \* downloadFile is not reached
  /\ net' = Complete(DownloadOp(k, id, live))
  /\ LET outcome == DownloadOutcome(s, saves)
     IN  /\ IF live
            THEN downloading' =
                   [downloading EXCEPT
                      ![k] = ReleaseDownloading(downloading[k], id, outcome)]
            ELSE UNCHANGED downloading
         /\ ev' = [type |-> "downloadDone", kind |-> k, id |-> id,
                   live |-> live, outcome |-> outcome,
                   ok |-> outcome = "saved",
                   settled |-> s, error |-> Thrown(s),
                   saved |-> Saves(s, Blob(k, id)),
                   alert |-> IF outcome = "saved" THEN NoAlert
                             ELSE DownloadAlert(k)]
  /\ UNCHANGED <<appVars, timers, scraperVars, items, loading, reportVars,
                 histVars>>

\* ------------------------------------------------------------ ReportsManager

handleGenerateReports ==
  /\ Rendered("reports")
  /\ ~generating                        \* the button is disabled
  /\ Room
  /\ generating' = TRUE
  /\ net' = Issue(GenerateOp(TRUE))
  /\ ev' = [type |-> "generate"]
  /\ UNCHANGED <<appVars, timers, scraperVars, managerVars,
                 reportsDownloading, histVars>>

\* Mutant of GenerateResponse: the finally block clears both flags of
\* ReportsManager.
GenerateResponseClearingBoth(live, s) ==
  /\ Pending(GenerateOp(live)) > 0
  /\ net' = Complete(GenerateOp(live))
  /\ generating' = IF live THEN FALSE ELSE generating
  /\ reportsDownloading' = IF live THEN FALSE ELSE reportsDownloading
  /\ ev' = [type |-> "generateDone", live |-> live, ok |-> Resolved(s),
            settled |-> s, error |-> Thrown(s),
            alert |-> IF Resolved(s) THEN "result.message"
                      ELSE "Failed to generate reports"]
  /\ UNCHANGED <<appVars, timers, scraperVars, managerVars, histVars>>

GenerateResponse(live, s) ==
  /\ Pending(GenerateOp(live)) > 0
  /\ net' = Complete(GenerateOp(live))
  /\ generating' = IF live THEN FALSE ELSE generating
  /\ ev' = [type |-> "generateDone", live |-> live, ok |-> Resolved(s),
            settled |-> s, error |-> Thrown(s),
            alert |-> IF Resolved(s) THEN "result.message"
                      ELSE "Failed to generate reports"]
  /\ UNCHANGED <<appVars, timers, scraperVars, managerVars,
                 reportsDownloading, histVars>>

handleDownloadReports ==
  /\ Rendered("reports")
  /\ ~reportsDownloading                \* the button is disabled
  /\ Room
  /\ reportsDownloading' = TRUE
  /\ net' = Issue(ReportsOp(TRUE))
  /\ ev' = [type |-> "reports"]
  /\ UNCHANGED <<appVars, timers, scraperVars, managerVars, generating,
                 histVars>>

ReportsResponse(live, s, saves) ==
  /\ Pending(ReportsOp(live)) > 0
  /\ ~Resolved(s) => saves             \* downloadFile is not reached
  /\ net' = Complete(ReportsOp(live))
  /\ reportsDownloading' = IF live THEN FALSE ELSE reportsDownloading
  /\ LET outcome == DownloadOutcome(s, saves)
     IN  ev' = [type |-> "reportsDone", live |-> live, outcome |-> outcome,
                ok |-> outcome = "saved",
                settled |-> s, error |-> Thrown(s),
                saved |-> Saves(s, ReportBundle), filename |-> "reports.zip",
                alert |-> IF outcome = "saved" THEN NoAlert
                          ELSE "Failed to download reports"]
  /\ UNCHANGED <<appVars, timers, scraperVars, managerVars, generating,
                 histVars>>

\* ------------------------------------------------------------ App

\* renderContent() for `tab` after the rendered component changes (another
\* tab, or another key): the old component is unmounted, the new one starts
\* from its useState initial values, and a manager's useEffect fetches.
Mount(tab) ==
  /\ tab \in Kinds => Room
  /\ urls' = <<<<>>>>
  /\ keywords' = <<<<>>>>
  /\ scraperLoading' = FALSE
  /\ items' = NoItems
  /\ loading' = [k \in Kinds |-> k = tab]
  /\ downloading' = NoDownloads
  /\ generating' = FALSE
  /\ reportsDownloading' = FALSE
  /\ net' = IF tab \in Kinds
            THEN Orphaned(net) (+) SetToBag({ListOp(tab, TRUE)})
            ELSE Orphaned(net)

\* Mutant of setActiveTab: unmounting clears the pending refresh timers.
setActiveTabClearingTimers(tab) ==
  /\ ~isLoading
  /\ tab # activeTab
  /\ activeTab' = tab
  /\ Mount(tab)
  /\ timers' = 0
  /\ ev' = [type |-> "tab", tab |-> tab]
  /\ UNCHANGED <<isLoading, refreshTrigger, histVars>>

\* onClick={() => setActiveTab(tab.id)}
setActiveTab(tab) ==
  /\ ~isLoading
  /\ tab # activeTab
  /\ activeTab' = tab
  /\ Mount(tab)
  /\ ev' = [type |-> "tab", tab |-> tab]
  /\ UNCHANGED <<isLoading, refreshTrigger, timers, histVars>>

\* Mutant of Keyed: PDFManager rendered without the key.
KeyedVideosOnly == {"videos"}

\* <VideoManager key={refreshTrigger} />, <PDFManager key={refreshTrigger} />:
\* the tabs whose component is replaced when refreshTrigger changes.
Keyed == Kinds

\* The setTimeout callback of handleScrapeStart.
TimerFire ==
  /\ timers > 0
  /\ timers' = timers - 1
  /\ refreshTrigger' = refreshTrigger + 1
  /\ IF activeTab \in Keyed
     THEN Mount(activeTab)
     ELSE UNCHANGED <<scraperVars, managerVars, reportVars, net>>
  /\ ev' = [type |-> "timer"]
  /\ UNCHANGED <<isLoading, activeTab, histVars>>

\* ------------------------------------------------------------ specifications

\* What the operator types in the runs of Spec: nothing or a URL.
Typed == {<<>>, <<"a">>}

Next ==
  \/ SplashDone
  \/ \E v \in Typed : updateUrl(1, v)
  \/ handleSubmit
  \/ \E live \in BOOLEAN, s \in Settlements : ScrapeResponse(live, s)
  \/ \E tab \in Tabs : setActiveTab(tab)
  \/ TimerFire
  \/ \E k \in Kinds : ClickRefresh(k)
  \/ \E k \in Kinds, live \in BOOLEAN, s \in Settlements, data \in Payloads :
       ListSuccess(k, live, s, data)
  \/ \E k \in Kinds, live \in BOOLEAN, s \in Settlements : ListFailure(k, live, s)
  \/ \E k \in Kinds, a \in Artifacts : ClickDownload(k, a)
  \/ \E k \in Kinds, id \in Ids, live \in BOOLEAN, s \in Settlements,
        saves \in BOOLEAN : DownloadResponse(k, id, live, s, saves)
  \/ handleGenerateReports
  \/ \E live \in BOOLEAN, s \in Settlements : GenerateResponse(live, s)
  \/ handleDownloadReports
  \/ \E live \in BOOLEAN, s \in Settlements, saves \in BOOLEAN :
       ReportsResponse(live, s, saves)

Spec == Init /\ [][Next]_vars

\* Every request that can be pending.
Requests ==
  {ScrapeOp(l) : l \in BOOLEAN} \cup {GenerateOp(l) : l \in BOOLEAN}
    \cup {ReportsOp(l) : l \in BOOLEAN}
    \cup {ListOp(k, l) : k \in Kinds, l \in BOOLEAN}
    \cup {DownloadOp(k, id, l) : k \in Kinds, id \in Ids, l \in BOOLEAN}

\* The pending request o settles, resolved or rejected, and the handler
\* awaiting it runs to its end.
Settled(o) ==
  \/ /\ o.op = "scrape"
     /\ \E s \in Settlements : ScrapeResponse(o.live, s)
  \/ /\ o.op = "list"
     /\ \/ \E s \in Settlements, data \in Payloads :
             ListSuccess(o.kind, o.live, s, data)
        \/ \E s \in Settlements : ListFailure(o.kind, o.live, s)
  \/ /\ o.op = "download"
     /\ \E s \in Settlements, saves \in BOOLEAN :
          DownloadResponse(o.kind, o.id, o.live, s, saves)
  \/ /\ o.op = "generate"
     /\ \E s \in Settlements : GenerateResponse(o.live, s)
  \/ /\ o.op = "reports"
     /\ \E s \in Settlements, saves \in BOOLEAN :
          ReportsResponse(o.live, s, saves)

\* axios `timeout: 30000`: a request does not stay pending for ever.
EveryRequestSettles == \A o \in Requests : WF_vars(Settled(o))

SpecLive == Init /\ [][Next]_vars /\ EveryRequestSettles

\* The form alone: the operator fills in the two lists, every entry any
\* string, and then submits; the form is edited before the first request
\* is sent, not between submissions.
Filling == posted = 0

NextForm ==
  \/ SplashDone
  \/ \E i \in 1..MaxEntries, v \in Strings : Filling /\ updateKeyword(i, v)
  \/ Filling /\ addKeyword
  \/ \E i \in 1..MaxEntries : Filling /\ removeKeyword(i)
  \/ \E i \in 1..MaxEntries, v \in Strings : Filling /\ updateUrl(i, v)
  \/ Filling /\ addUrl
  \/ \E i \in 1..MaxEntries : Filling /\ removeUrl(i)
  \/ handleSubmit
  \/ \E s \in Settlements : ScrapeResponse(TRUE, s)

SpecForm == Init /\ [][NextForm]_vars

\* The managers alone, fetchVideos / fetchPDFs called whether or not an
\* earlier call of the same manager has settled.
NextRefresh ==
  \/ SplashDone
  \/ \E tab \in Tabs : setActiveTab(tab)
  \/ \E k \in Kinds : refresh(k)
  \/ \E k \in Kinds, live \in BOOLEAN, s \in Settlements, data \in Payloads :
       ListSuccess(k, live, s, data)
  \/ \E k \in Kinds, live \in BOOLEAN, s \in Settlements : ListFailure(k, live, s)

SpecRefresh == Init /\ [][NextRefresh]_vars

\* The managers alone, handleDownload called for any artifact listed,
\* whether or not the card shows an enabled download button for it.
NextDownload ==
  \/ SplashDone
  \/ \E tab \in Tabs : setActiveTab(tab)
  \/ \E k \in Kinds, live \in BOOLEAN, s \in Settlements, data \in Payloads :
       ListSuccess(k, live, s, data)
  \/ \E k \in Kinds, a \in Artifacts : download(k, a)
  \/ \E k \in Kinds, id \in Ids, live \in BOOLEAN, s \in Settlements,
        saves \in BOOLEAN : DownloadResponse(k, id, live, s, saves)

SpecDownload == Init /\ [][NextDownload]_vars

\* handleDownload alone: a manager that has loaded one persisted artifact,
\* of any filename and url, whose download button is clicked.
InitFilename ==
  /\ isLoading = FALSE
  /\ activeTab \in Kinds
  /\ refreshTrigger = 0
  /\ timers = 0
  /\ ScraperInit
  /\ \E a \in NamedArtifacts :
       items = [k \in Kinds |-> IF k = activeTab THEN <<a>> ELSE <<>>]
  /\ loading = NotLoading
  /\ downloading = NoDownloads
  /\ generating = FALSE
  /\ reportsDownloading = FALSE
  /\ net = EmptyBag
  /\ posted = 0
  /\ ev = [type |-> "init"]

NextFilename ==
  \/ \E k \in Kinds, a \in NamedArtifacts : ClickDownload(k, a)
  \/ \E k \in Kinds, a \in NamedArtifacts : SaveDownload(k, a)

SpecFilename == InitFilename /\ [][NextFilename]_vars

\* ------------------------------------------------------------ properties

\* Payload fetches pending for artifact id of kind k, whoever awaits them.
PendingDownloads(k, id) ==
  Pending(DownloadOp(k, id, TRUE)) + Pending(DownloadOp(k, id, FALSE))

\* List fetches pending for kind k, whoever awaits them.
PendingLists(k) == Pending(ListOp(k, TRUE)) + Pending(ListOp(k, FALSE))

\* C1: at most one payload fetch per item identifier is pending at any
\* time, whatever the operator does (downloads, refreshes, tab switches,
\* submissions, the delayed refresh firing).
C1_OneFetchPerItem ==
  \A k \in Kinds, id \in Ids : PendingDownloads(k, id) <= 1

\* C2: a download requested for an item while a payload fetch of that item
\* is in flight is rejected: it issues no fetch and leaves the in-flight
\* set as it is, so two overlapping downloads of one item give one save.
C2_BusyDownloadRejected ==
  [][\A k \in Kinds, id \in Ids :
       (/\ ev'.type = "download" /\ ev'.kind = k /\ ev'.id = id
        /\ PendingDownloads(k, id) > 0)
       => (net' = net /\ downloading' = downloading)]_vars

C4_NotBusyAfterReturn ==
  (ev.type = "downloadDone" /\ ev.live) => ev.id \notin downloading[ev.kind]

\* C4 witness: a download whose fetch failed has returned.
C4_Witness ==
  ev.type = "downloadDone" /\ ev.live /\ ev.outcome = "fetchFailed"

\* C5: the delayed refresh signal is scheduled only when a submission has
\* been accepted by the remote service.
C5_SignalOnlyOnAcceptance ==
  [][timers' > timers => (ev'.type = "scrapeDone" /\ ev'.ok)]_vars

\* C6: every transmitted submission has exactly one signal, pending or
\* fired, and a firing signal starts exactly one list fetch for the manager
\* mounted at that moment and none for any other.
C6_OneRefreshPerSignal ==
  /\ [](refreshTrigger + timers = posted)
  /\ [][refreshTrigger' # refreshTrigger =>
          /\ refreshTrigger' = refreshTrigger + 1
          /\ timers' = timers - 1
          /\ \A k \in Kinds :
               /\ PendingLists(k)' - PendingLists(k)
                    = IF activeTab = k THEN 1 ELSE 0
               /\ Pending(ListOp(k, TRUE))'
                    = IF activeTab = k THEN 1 ELSE 0]_vars

\* C6 witness: the signal has fired with a manager mounted, whose fetch is
\* pending.
C6_Witness ==
  /\ ev.type = "timer" /\ activeTab \in Kinds
  /\ Pending(ListOp(activeTab, TRUE)) = 1

\* C7 as claimed: the timer is cancelled when the view that scheduled it
\* is torn down, so none is pending once the scraper tab is left.
C7_TimerCancelledOnTeardown ==
  timers > 0 => activeTab = "scraper"

\* C7 as amended: unmounting a view leaves the pending timers as they are,
\* and a firing timer starts no list fetch on behalf of an unmounted
\* manager: the orphaned fetches are those that were already pending, and
\* a manager that is not mounted has none of its own.
C7_TimerSurvivesTeardown ==
  /\ [][activeTab' # activeTab => timers' = timers]_vars
  /\ [][refreshTrigger' # refreshTrigger =>
          \A k \in Kinds :
            /\ Pending(ListOp(k, FALSE))'
                 = Pending(ListOp(k, FALSE)) + Pending(ListOp(k, TRUE))
            /\ activeTab # k => Pending(ListOp(k, TRUE))' = 0]_vars

\* C7 witness: the timer has fired after the view that submitted was torn
\* down, its request still unanswered.
C7_Witness ==
  /\ ev.type = "timer" /\ activeTab # "scraper"
  /\ Pending(ScrapeOp(FALSE)) > 0

\* A string of white space only.
IsBlank(s) == \A i \in DOMAIN s : s[i] \in WhiteSpace
AllBlank(list) == \A i \in DOMAIN list : IsBlank(list[i])

\* out is raw without its blank entries, the others in their order.
NonBlankInOrder(out, raw) ==
  \E f \in [DOMAIN out -> DOMAIN raw] :
    /\ \A i, j \in DOMAIN out : i < j => f[i] < f[j]
    /\ {f[i] : i \in DOMAIN out} = {i \in DOMAIN raw : ~IsBlank(raw[i])}
    /\ \A i \in DOMAIN out : out[i] = raw[f[i]]

\* C8: a submit of entries that are all blank fails with EmptyRequest and
\* sends nothing; every job sent has a non-blank entry.
C8_EmptyRequestLocal ==
  /\ [][(ev'.type = "submit" /\ AllBlank(urls) /\ AllBlank(keywords))
          => (ev'.outcome = "EmptyRequest" /\ net' = net /\ posted' = posted)]_vars
  /\ []((ev.type = "submit" /\ ev.outcome = "sent")
          => ~(AllBlank(ev.request.urls) /\ AllBlank(ev.request.keywords)))

\* C8 witness: a form of several entries, one of them white space, was
\* submitted and refused.
C8_Witness ==
  /\ ev.type = "submit" /\ ev.outcome = "EmptyRequest"
  /\ Len(urls) + Len(keywords) >= 3
  /\ \E i \in DOMAIN keywords : keywords[i] # <<>>

\* C9: a submit with a non-blank entry sends, for urls and for keywords,
\* exactly the non-blank entries of the form in their order.
C9_NonBlankEntriesSent ==
  [][(ev'.type = "submit" /\ ~(AllBlank(urls) /\ AllBlank(keywords)))
       => /\ ev'.outcome = "sent"
          /\ NonBlankInOrder(ev'.request.urls, urls)
          /\ NonBlankInOrder(ev'.request.keywords, keywords)]_vars

\* C9 witness: a job was sent from a list with a blank entry between or
\* before its non-blank ones.
C9_Witness ==
  /\ ev.type = "submit" /\ ev.outcome = "sent"
  /\ \E i, j \in DOMAIN urls : i < j /\ IsBlank(urls[i]) /\ ~IsBlank(urls[j])
  /\ Len(ev.request.urls) < Len(urls)

HasEdgeSpace(s) ==
  s # <<>> /\ (Head(s) \in WhiteSpace \/ s[Len(s)] \in WhiteSpace)

\* C10: every entry of a job sent is the trimmed form of the entry typed:
\* none has leading or trailing white space.
C10_EntriesTrimmed ==
  (ev.type = "submit" /\ ev.outcome = "sent")
    => /\ \A i \in DOMAIN ev.request.urls :
            ~HasEdgeSpace(ev.request.urls[i])
       /\ \A i \in DOMAIN ev.request.keywords :
            ~HasEdgeSpace(ev.request.keywords[i])

\* C11: a refresh whose list fetch fails leaves the manager's items as they
\* were before the refresh started and clears loading.  Nothing else
\* changes items between the start and the failure, so the claim is that
\* the failing step leaves items alone and clears loading, and that the
\* step that starts the refresh, the Refresh button or the delayed signal
\* firing on a mounted manager, leaves a well-formed list of items alone.
C11_FailedRefreshKeepsItems ==
  /\ [][(ev'.type = "listDone" /\ ev'.live /\ ~ev'.ok)
          => (items' = items /\ ~loading'[ev'.kind])]_vars
  /\ [][(/\ ev'.type \in {"refresh", "timer"} /\ activeTab \in Kinds
          /\ items[activeTab] \in RemoteLists)
          => items'[activeTab] = items[activeTab]]_vars

\* C12: a refresh sets loading when it starts; when its list fetch
\* succeeds and no other fetch of that manager is pending, items is exactly
\* the sequence returned, the empty one included, and loading is false.
C12_RefreshReplacesItems ==
  /\ ev.type = "refresh"
       => (loading[ev.kind] /\ Pending(ListOp(ev.kind, TRUE)) > 0)
  /\ (/\ ev.type = "listDone" /\ ev.live /\ ev.ok
      /\ Pending(ListOp(ev.kind, TRUE)) = 0)
       => (items[ev.kind] = ev.data /\ ~loading[ev.kind])

\* C12 witness: the list fetch of a manager answered with the empty
\* collection.
C12_Witness ==
  /\ ev.type = "listDone" /\ ev.live /\ ev.ok
  /\ ev.data = <<>> /\ items[ev.kind] = <<>> /\ ~loading[ev.kind]
  /\ refreshTrigger = 0 /\ posted = 0

\* C13: a refresh called while another of the same manager is pending
\* issues its own list fetch, and every response that arrives is applied
\* as it arrives: a successful one replaces items by its payload, a failed
\* one leaves them, so the last successful arrival wins.
C13_LastResponseWins ==
  /\ [][\A k \in Kinds :
          (ev'.type = "refresh" /\ ev'.kind = k)
            => /\ Pending(ListOp(k, TRUE))' = Pending(ListOp(k, TRUE)) + 1
               /\ items' = items]_vars
  /\ [][\A k \in Kinds :
          (ev'.type = "listDone" /\ ev'.live /\ ev'.kind = k)
            => items'[k] = IF ev'.ok THEN ev'.data ELSE items[k]]_vars

\* C13 witness: a response was applied while another fetch of the same
\* manager was still pending.
C13_Witness ==
  /\ ev.type = "listDone" /\ ev.live /\ ev.ok
  /\ Pending(ListOp(ev.kind, TRUE)) > 0
  /\ items[ev.kind] # <<>>

\* C14: a mounted manager has at most one list fetch of its own pending,
\* the fetch on mount, the Refresh button and the delayed signal counted.
C14_OneRefreshPerInstance ==
  \A k \in Kinds : Pending(ListOp(k, TRUE)) <= 1

\* C14 witness: a manual refresh is pending while the fetch of an earlier
\* instance of the same manager is still unanswered.
C14_Witness ==
  /\ ev.type = "refresh"
  /\ Pending(ListOp(ev.kind, TRUE)) = 1
  /\ Pending(ListOp(ev.kind, FALSE)) = 1

\* The path of a url: what follows the host up to the query.
RECURSIVE BeforeQuery(_)
BeforeQuery(t) ==
  IF t = <<>> THEN <<>>
  ELSE IF Head(t) = "?" THEN <<>>
  ELSE <<Head(t)>> \o BeforeQuery(Tail(t))

PathOf(url) ==
  BeforeQuery(SubSeq(url, Len(Scheme \o Host) + 1, Len(url)))

RECURSIVE LastSegment(_)
LastSegment(path) ==
  IF path = <<>> THEN <<>>
  ELSE IF path[Len(path)] = "/" THEN <<>>
  ELSE Append(LastSegment(SubSeq(path, 1, Len(path) - 1)), path[Len(path)])

\* C15: a download is saved under the artifact's filename when it has one,
\* otherwise under the last segment of the path of its url when that is
\* not empty, otherwise under video_<id>.mp4 / document_<id>.pdf; the host
\* and the query of the url never name the file.
C15_FilenameByPathSegment ==
  ev.type = "saveAs" =>
    LET a == ev.artifact
        segment == LastSegment(PathOf(a.url))
    IN  ev.filename =
          IF a.filename # <<>> THEN a.filename
          ELSE IF segment # <<>> THEN segment
          ELSE Fallback(ev.kind, a.id)

\* The events in which an awaited request has settled and its handler has
\* run to the end.
DoneTypes ==
  {"scrapeDone", "listDone", "downloadDone", "generateDone", "reportsDone"}

\* The busy indicator of the operation that has just ended.
Busy ==
  CASE ev.type = "scrapeDone" -> scraperLoading
    [] ev.type = "listDone" -> loading[ev.kind]
    [] ev.type = "downloadDone" -> ev.id \in downloading[ev.kind]
    [] ev.type = "generateDone" -> generating
    [] ev.type = "reportsDone" -> reportsDownloading

\* C16: every operation that fails raises a notification to the user, and
\* the component that awaited it no longer shows the operation as busy.
C16_FailureNotified ==
  (ev.type \in DoneTypes /\ ~ev.ok)
    => (ev.alert # NoAlert /\ (ev.live => ~Busy))

\* C17: a request that times out, gets no response or gets a status
\* outside 2xx never gives its caller a normal result: the caller's catch
\* block runs, with the error of that rejection.
C17_FailuresReachCaller ==
  (ev.type \in DoneTypes /\ ev.settled # "2xx")
    => (~ev.ok /\ ev.error = ev.settled)

\* C17 witness: POST /scrape timed out, after the refresh timer of that
\* submission had fired, and handleSubmit ended in its catch block.
C17_Witness ==
  /\ ev.type = "scrapeDone" /\ ev.live
  /\ ev.settled = "timeout" /\ ev.error = "timeout" /\ ~ev.ok
  /\ refreshTrigger = posted

\* C18: what a manager holds as items is always a well-formed list of
\* artifacts; a malformed body is never delivered.
C18_MalformedNeverDelivered ==
  \A k \in Kinds : items[k] \in RemoteLists

\* C19: no step adds more than one request; only an invocation (a submit,
\* a refresh, a download, a report action, or the mounting of a manager)
\* adds one; and the step in which a request settles, failed or not,
\* removes that request and sends nothing.
C19_NoAutomaticRetry ==
  [][/\ BagCardinality(net') <= BagCardinality(net) + 1
     /\ BagCardinality(net') > BagCardinality(net)
          => ev'.type \in {"submit", "refresh", "download", "generate",
                           "reports", "tab", "timer"}
     /\ ev'.type \in DoneTypes
          => BagCardinality(net') = BagCardinality(net) - 1]_vars

\* C19 witness: a request has failed and nothing is pending.
C19_Witness ==
  /\ ev.type \in DoneTypes /\ ~ev.ok /\ ev.error # "none"
  /\ net = EmptyBag

\* Report-bundle fetches pending, whoever awaits them.
PendingReports == Pending(ReportsOp(TRUE)) + Pending(ReportsOp(FALSE))

\* C20: at most one report-bundle fetch is pending at any time.
C20_OneReportFetch ==
  PendingReports <= 1

\* C21: a download of one kind, started or ended, leaves both managers'
\* items and loading and the other kind's in-flight set as they are;
\* generating reports and downloading them leave the managers' state and
\* each other's busy flag as they are.
C21_OwnStateOnly ==
  [][/\ \A k \in Kinds :
          (ev'.type \in {"download", "downloadDone"} /\ ev'.kind = k)
            => /\ items' = items
               /\ loading' = loading
               /\ \A j \in Kinds \ {k} : downloading'[j] = downloading[j]
     /\ ev'.type \in {"generate", "generateDone"}
          => (managerVars' = managerVars
              /\ reportsDownloading' = reportsDownloading)
     /\ ev'.type \in {"reports", "reportsDone"}
          => (managerVars' = managerVars /\ generating' = generating)]_vars

\* C21 witness: report generation ended while a report download of the same
\* ReportsManager was still busy.
C21_Witness ==
  /\ ev.type = "generateDone" /\ ev.live
  /\ reportsDownloading /\ Pending(ReportsOp(TRUE)) = 1

\* POST /scrape requests pending, whoever awaits them.
PendingScrapes == Pending(ScrapeOp(TRUE)) + Pending(ScrapeOp(FALSE))

\* C22: a refresh signal fires only after the acceptance of its submission
\* has been received, so the signals fired are never more than the
\* submissions answered.
C22_RefreshAfterAcceptance ==
  refreshTrigger + PendingScrapes <= posted

\* C23: a refresh, by the Refresh button or by the delayed signal, leaves
\* the in-flight sets as they are.
C23_RefreshKeepsInFlight ==
  [][ev'.type \in {"refresh", "timer"} => downloading' = downloading]_vars

C25_SavedOncePerFetch ==
  /\ ev.type = "downloadDone"
       => ev.saved = IF ev.settled = "2xx" THEN <<Blob(ev.kind, ev.id)>>
                     ELSE <<>>
  /\ ev.type = "reportsDone"
       => /\ ev.saved = IF ev.settled = "2xx" THEN <<ReportBundle>> ELSE <<>>
          /\ ev.filename = "reports.zip"
  /\ ev.type \notin {"downloadDone", "reportsDone", "saveAs"}
       => "saved" \notin DOMAIN ev

\* C25 witness: the payload of an artifact arrived after its manager had
\* been unmounted and was saved, once.
C25_Witness ==
  /\ ev.type = "downloadDone" /\ ~ev.live
  /\ ev.settled = "2xx" /\ Len(ev.saved) = 1
  /\ PendingDownloads(ev.kind, ev.id) = 0

\* C26: a download called for a listed artifact without minio_object_name
\* is refused on the spot: no request is sent, no file is saved and the
\* in-flight set stays as it is.
C26_NotPersistedRefused ==
  [][\A k \in Kinds, a \in Artifacts :
       (/\ ev'.type = "download" /\ ev'.kind = k /\ ev'.id = a.id
        /\ ~a.minio_object_name
        /\ \E i \in DOMAIN items[k] : items[k][i] = a)
       => (/\ ev'.outcome = "unavailable"
           /\ net' = net
           /\ downloading' = downloading
           /\ "saved" \notin DOMAIN ev')]_vars

\* C26 witness: a download was refused while another item of the same
\* manager was in flight.
C26_Witness ==
  /\ ev.type = "download" /\ ev.outcome = "unavailable"
  /\ downloading[ev.kind] # {} /\ ev.id \notin downloading[ev.kind]

\* C27: with every request settling in the end, every busy indicator that
\* is set is cleared in the end: loading of a manager, each identifier in
\* an in-flight set, and the busy flags of submit, generate and report
\* download.
\* "Busy leads to not busy", B ~> ~B, is written in its equivalent form
\* []<>~B.
C27_BusyEventuallyCleared ==
  /\ []<>~scraperLoading
  /\ []<>~generating
  /\ []<>~reportsDownloading
  /\ \A k \in Kinds : []<>~loading[k]
  /\ \A k \in Kinds, id \in Ids : []<>(id \notin downloading[k])

\* C27 witness: a download whose request was rejected has left the in-flight
\* set while the list of its manager is being fetched again.
C27_Witness ==
  /\ ev.type = "downloadDone" /\ ev.live /\ ~ev.ok
  /\ ev.id \notin downloading[ev.kind]
  /\ loading[ev.kind]

\* C28: a submission refused as empty, or whose request is rejected, leaves
\* the urls and keywords of the form as they are; one that is accepted
\* resets both to a single blank entry; in every case the form is not
\* loading afterwards.
C28_FormKeptOnFailure ==
  [][/\ (ev'.type = "submit" /\ ev'.outcome = "EmptyRequest")
          => (formVars' = formVars /\ ~scraperLoading')
     /\ (ev'.type = "scrapeDone" /\ ev'.live /\ ~ev'.ok)
          => (formVars' = formVars /\ ~scraperLoading')
     /\ (ev'.type = "scrapeDone" /\ ev'.live /\ ev'.ok)
          => (/\ urls' = <<<<>>>>
              /\ keywords' = <<<<>>>>
              /\ ~scraperLoading')]_vars

\* C28 witness: a request sent from a form of several entries was rejected
\* and the form still holds them.
C28_Witness ==
  /\ ev.type = "scrapeDone" /\ ev.live /\ ~ev.ok
  /\ ~scraperLoading
  /\ Len(urls) >= 2
  /\ \E i \in DOMAIN keywords : ~IsBlank(keywords[i])

====
